---- MODULE Spec2Model ----
(***************************************************************************)
(* A model of slide-scraper (src/main.py): create_speaker_mask,            *)
(* extract_frames, create_pdf and extract_slides_from_youtube.             *)
(*                                                                         *)
(* A frame is a grid of BGR pixels, rows and columns counted from 0 as in  *)
(* numpy.  Timestamps are integer milliseconds, min_interval is in whole   *)
(* seconds, ratios are rationals <<numerator, denominator>>, and the score *)
(* mean_diff is kept as the exact fraction np.sum(diff) / np.sum(mask).    *)
(***************************************************************************)
EXTENDS Integers, Sequences, FiniteSets, TLC

\* ------------------------------------------------------------------ bounds
MaxFrames == 4      \* longest video of the selection family
MaxTick == 3        \* timestamps are 0, 500, ..., MaxTick * 500 ms
MaxInterval == 2    \* min_interval is 0 .. MaxInterval seconds
MaxDim == 2         \* frame heights and widths of the mask family
MaskFrames == 2     \* longest video of the mask family
MaxRuns == 2        \* calls of extract_slides_from_youtube in a row

\* ------------------------------------------------------------ numpy / cv2
Min(a, b) == IF a < b THEN a ELSE b
Max(a, b) == IF a > b THEN a ELSE b
Abs(a) == IF a < 0 THEN -a ELSE a

RECURSIVE SumOver(_, _)
SumOver(f, S) ==
    IF S = {} THEN 0
    ELSE LET x == CHOOSE y \in S : TRUE IN f[x] + SumOver(f, S \ {x})

Cells(h, w) == (0 .. h - 1) \X (0 .. w - 1)

\* int(x) for x = num/den, den > 0: Python truncates towards zero.
PyInt(num, den) == IF num >= 0 THEN num \div den ELSE -((-num) \div den)

\* The indices a[start:stop] selects on an axis of length n: a negative bound
\* counts from the end, and both bounds are clipped to 0 .. n.
SliceBound(i, n) == IF i < 0 THEN Max(i + n, 0) ELSE Min(i, n)
SliceTo(stop, n) == 0 .. SliceBound(stop, n) - 1
SliceFrom(start, n) == SliceBound(start, n) .. n - 1

Black == <<0, 0, 0>>
Blue == <<255, 0, 0>>
White == <<255, 255, 255>>

\* cv2.cvtColor(frame, COLOR_BGR2GRAY) on one pixel: OpenCV's 14-bit fixed
\* point luminance, rounded.
GrayOf(bgr) == (1868 * bgr[1] + 9617 * bgr[2] + 4899 * bgr[3] + 8192) \div 16384
cvtColor(frame) ==
    [h |-> frame.h, w |-> frame.w, px |-> [c \in DOMAIN frame.px |-> GrayOf(frame.px[c])]]

\* The mask is forgotten: the plane goes through as it is.
multiply_Unmasked(plane, m) == plane

\* cv2.multiply on uint8 planes saturates at 255.
multiply(plane, m) ==
    [h |-> plane.h, w |-> plane.w,
     px |-> [c \in DOMAIN plane.px |-> Min(plane.px[c] * m.px[c], 255)]]
absdiff(a, b) ==
    [h |-> a.h, w |-> a.w, px |-> [c \in DOMAIN a.px |-> Abs(a.px[c] - b.px[c])]]
npSum(plane) == SumOver(plane.px, DOMAIN plane.px)

\* prev_frame = None
NoFrame == [h |-> 0, w |-> 0, px |-> <<>>]

\* ------------------------------------------------------ create_speaker_mask
Positions == {"top-left", "top-right", "bottom-left", "bottom-right"}

MaskedRows(height, speaker_height, position) ==
    IF position \in {"top-left", "top-right"}
    THEN SliceTo(speaker_height, height)
    ELSE SliceFrom(-speaker_height, height)

MaskedCols(width, speaker_width, position) ==
    IF position \in {"top-left", "bottom-left"}
    THEN SliceTo(speaker_width, width)
    ELSE SliceFrom(-speaker_width, width)

create_speaker_mask(height, width, speaker_width_ratio, speaker_height_ratio, position) ==
    LET speaker_height == PyInt(height * speaker_height_ratio[1], speaker_height_ratio[2])
        speaker_width == PyInt(width * speaker_width_ratio[1], speaker_width_ratio[2])
        rows == MaskedRows(height, speaker_height, position)
        cols == MaskedCols(width, speaker_width, position)
    IN  [h |-> height, w |-> width,
         px |-> [c \in Cells(height, width) |->
                    IF position \in Positions /\ c[1] \in rows /\ c[2] \in cols
                    THEN 0 ELSE 1]]

\* ------------------------------------------------------------ extract_frames
\* f"frame_{n:04d}.jpg" under output_dir
Pad4(n) == <<(n \div 1000) % 10, (n \div 100) % 10, (n \div 10) % 10, n % 10>>
FramePath(output_dir, n) == <<output_dir, "frame_", Pad4(n), ".jpg">>

MinTimeBetweenFrames(min_interval) == min_interval * 1000

\* The selector starts at time 0 instead of one interval before it.
InitialLastSaved_Zero(min_time_between_frames) == 0
InitialLastSaved(min_time_between_frames) == -min_time_between_frames

\* The previous frame starts as a black plane (np.zeros_like) instead of None.
InitialPrevFrame_Zeros(first_frame) ==
    [h |-> first_frame.h, w |-> first_frame.w,
     px |-> [c \in DOMAIN first_frame.px |-> 0]]
InitialPrevFrame(first_frame) == NoFrame

\* mean_diff = np.sum(diff) / np.sum(mask), kept as a fraction: 0/0 is nan and
\* x/0 with x > 0 is inf, as numpy's scalar division gives.
MeanDiff(gray, prev, m) ==
    [num |-> npSum(absdiff(multiply(gray, m), multiply(prev, m))), den |-> npSum(m)]
IsNaN(md) == md.den = 0 /\ md.num = 0
Exceeds(md, frame_threshold) ==
    IF md.den = 0 THEN md.num > 0 ELSE md.num > frame_threshold * md.den

\* The debounce is forgotten: the score alone decides.
ShouldSave_NoDebounce(md, frame_threshold, timestamp, last, min_time) ==
    Exceeds(md, frame_threshold)
\* A score equal to the threshold is taken too (>= for >).
ShouldSave_AtThreshold(md, frame_threshold, timestamp, last, min_time) ==
    /\ md.den # 0
    /\ md.num >= frame_threshold * md.den
    /\ (timestamp - last) >= min_time
ShouldSave(md, frame_threshold, timestamp, last, min_time) ==
    Exceeds(md, frame_threshold) /\ (timestamp - last) >= min_time

\* The reference frame is set once and never moved on.
CarryPrev_KeepFirst(prev, gray) == IF prev = NoFrame THEN gray ELSE prev
\* Line 123: prev_frame = gray
CarryPrev(prev, gray) == gray

VARIABLES
    pc,             \* where the program is
    runs,           \* calls of extract_slides_from_youtube started so far
    kw,             \* the keyword arguments of extract_frames
    cleanup,        \* the cleanup argument
    video,          \* the frames of the video file, with their timestamps
    fs,             \* the files: the video file, the frames directory, its files
    pos,            \* the capture's read position (CAP_PROP_POS_FRAMES)
    mask,
    prev_frame,
    saved_frames,
    last_saved_time,
    mean_diff,      \* the last score computed
    downloaded,     \* download_video's result
    success         \* create_pdf's result, and the call's

vars == <<pc, runs, kw, cleanup, video, fs, pos, mask, prev_frame, saved_frames,
          last_saved_time, mean_diff, downloaded, success>>

NoScore == [num |-> 0, den |-> 1]
FramesDir == "temp_frames"

\* cap.read(): the frame at the read position, or ret = False at the end.
CanRead == pos < Len(video)

\* The failed first read does not return: the run goes on to the loop.
ExtractOpen_NoEarlyReturn ==
    /\ pc = "extract"
    /\ fs' = [fs EXCEPT !.dir = TRUE]
    /\ IF CanRead
       THEN /\ pos' = pos + 1
            /\ pc' = "setup"
       ELSE /\ pos' = pos
            /\ pc' = "loop"
    /\ UNCHANGED <<runs, kw, cleanup, video, mask, prev_frame, saved_frames,
                   last_saved_time, mean_diff, downloaded, success>>

\* Lines 70-77: the directory, the capture and the first read.
ExtractOpen ==
    /\ pc = "extract"
    /\ fs' = [fs EXCEPT !.dir = TRUE]
    /\ IF CanRead
       THEN /\ pos' = pos + 1
            /\ pc' = "setup"
            /\ UNCHANGED saved_frames
       ELSE /\ pos' = pos
            /\ saved_frames' = <<>>
            /\ pc' = "create_pdf"
    /\ UNCHANGED <<runs, kw, cleanup, video, mask, prev_frame, last_saved_time,
                   mean_diff, downloaded, success>>

\* Lines 79-91: the mask, the selector's state and the rewind.
ExtractSetup ==
    /\ pc = "setup"
    /\ LET first_frame == video[1].img
       IN  /\ mask' = create_speaker_mask(first_frame.h, first_frame.w,
                          kw.speaker_width_ratio, kw.speaker_height_ratio, kw.position)
           /\ prev_frame' = InitialPrevFrame(first_frame)
    /\ saved_frames' = <<>>
    /\ last_saved_time' = InitialLastSaved(MinTimeBetweenFrames(kw.min_interval))
    /\ pos' = 0
    /\ pc' = "loop"
    /\ UNCHANGED <<runs, kw, cleanup, video, fs, mean_diff, downloaded, success>>

\* Lines 92-123: one turn of the loop.
LoopRead ==
    /\ pc = "loop"
    /\ IF ~CanRead
       THEN /\ pc' = "create_pdf"
            /\ UNCHANGED <<pos, prev_frame, saved_frames, last_saved_time, mean_diff, fs>>
       ELSE LET frame == video[pos + 1].img
                timestamp == video[pos + 1].ts
                gray == cvtColor(frame)
                md == MeanDiff(gray, prev_frame, mask)
                min_time == MinTimeBetweenFrames(kw.min_interval)
                save == /\ prev_frame # NoFrame
                        /\ ShouldSave(md, kw.frame_threshold, timestamp,
                                      last_saved_time, min_time)
                frame_path == FramePath(FramesDir, Len(saved_frames))
            IN  /\ pos' = pos + 1
                /\ pc' = "loop"
                /\ mean_diff' = IF prev_frame # NoFrame THEN md ELSE mean_diff
                /\ IF save
                   THEN /\ fs' = [fs EXCEPT !.frames = @ \cup {frame_path}]
                        /\ saved_frames' = Append(saved_frames,
                               [path |-> frame_path, timestamp |-> timestamp])
                        /\ last_saved_time' = timestamp
                   ELSE UNCHANGED <<fs, saved_frames, last_saved_time>>
                /\ prev_frame' = CarryPrev(prev_frame, gray)
    /\ UNCHANGED <<runs, kw, cleanup, video, mask, downloaded, success>>

NextExtract == ExtractOpen \/ ExtractSetup \/ LoopRead

\* ------------------------------------------------------------------ inputs
Times == {500 * t : t \in 0 .. MaxTick}
Thresholds == {100, 255}

Uniform(h, w, colour) == [h |-> h, w |-> w, px |-> [c \in Cells(h, w) |-> colour]]

NonDecreasing(ts) == \A i \in 1 .. Len(ts) - 1 : ts[i] <= ts[i + 1]

\* Videos of 1 x 1 frames with every non-decreasing run of timestamps.
SelectVideos ==
    UNION {{[i \in 1 .. n |-> [img |-> Uniform(1, 1, cs[i]), ts |-> ts[i]]] :
              cs \in [1 .. n -> {Black, White}],
              ts \in {t \in [1 .. n -> Times] : NonDecreasing(t)}} :
           n \in 0 .. MaxFrames}
SelectKw ==
    {[speaker_width_ratio |-> <<1, 4>>, speaker_height_ratio |-> <<1, 4>>,
      position |-> "top-left", frame_threshold |-> th, min_interval |-> mi] :
       th \in Thresholds, mi \in 0 .. MaxInterval}

InitLocals ==
    /\ pos = 0
    /\ mask = NoFrame
    /\ prev_frame = NoFrame
    /\ saved_frames = <<>>
    /\ last_saved_time = 0
    /\ mean_diff = NoScore
    /\ success = FALSE

InitSelect ==
    /\ pc = "extract"
    /\ runs = 1
    /\ cleanup = FALSE
    /\ downloaded = TRUE
    /\ video \in SelectVideos
    /\ kw \in SelectKw
    /\ fs = [video |-> TRUE, dir |-> FALSE, frames |-> {}]
    /\ InitLocals

SpecSelect == InitSelect /\ [][NextExtract]_vars

\* Videos of h x w frames, each black or black with one blue pixel (gray 29),
\* at a steady 500 ms per frame.
Spot(h, w, cell) ==
    [h |-> h, w |-> w, px |-> [c \in Cells(h, w) |-> IF c = cell THEN Blue ELSE Black]]
MaskImages(h, w) == {Uniform(h, w, Black)} \cup {Spot(h, w, c) : c \in Cells(h, w)}
MaskVideos ==
    UNION {{[i \in 1 .. n |-> [img |-> is[i], ts |-> 500 * (i - 1)]] :
              is \in [1 .. n -> MaskImages(d[1], d[2])]} :
           d \in (1 .. MaxDim) \X (1 .. MaxDim), n \in 0 .. MaskFrames}
Ratios == {<<0, 1>>, <<1, 2>>, <<1, 1>>}
RatioPairs ==
    (Ratios \X Ratios)
        \cup {<<<<3, 2>>, <<1, 2>>>>, <<<<1, 2>>, <<3, 2>>>>,
              <<<<-1, 2>>, <<1, 2>>>>, <<<<1, 2>>, <<-1, 2>>>>}
MaskKw ==
    {[speaker_width_ratio |-> rp[1], speaker_height_ratio |-> rp[2],
      position |-> p, frame_threshold |-> th, min_interval |-> mi] :
       rp \in RatioPairs, p \in Positions, th \in {10}, mi \in {0, MaxInterval}}

InitMask ==
    /\ pc = "extract"
    /\ runs = 1
    /\ cleanup = FALSE
    /\ downloaded = TRUE
    /\ video \in MaskVideos
    /\ kw \in MaskKw
    /\ fs = [video |-> TRUE, dir |-> FALSE, frames |-> {}]
    /\ InitLocals

SpecMask == InitMask /\ [][NextExtract]_vars

\* ------------------------------------------------ extract_slides_from_youtube
\* Videos of 1 x 1 frames at a steady 500 ms per frame.
RunVideos ==
    UNION {{[i \in 1 .. n |-> [img |-> Uniform(1, 1, cs[i]), ts |-> 500 * (i - 1)]] :
              cs \in [1 .. n -> {Black, White}]} :
           n \in 0 .. MaxFrames}

ResetLocals ==
    /\ pos' = 0
    /\ mask' = NoFrame
    /\ prev_frame' = NoFrame
    /\ saved_frames' = <<>>
    /\ last_saved_time' = 0
    /\ mean_diff' = NoScore
    /\ success' = FALSE

\* Line 158: the next call, in this process or a later one; the files stay.
Call ==
    /\ pc \in {"returned", "raised"}
    /\ runs < MaxRuns
    /\ runs' = runs + 1
    /\ kw' \in SelectKw
    /\ cleanup' \in BOOLEAN
    /\ downloaded' = FALSE
    /\ pc' = "download"
    /\ ResetLocals
    /\ UNCHANGED <<video, fs>>

\* Lines 11-29 and 162-163: yt-dlp writes the video file, or raises and
\* download_video returns False, and so does the call.
DownloadVideo ==
    /\ pc = "download"
    /\ \/ /\ video' \in RunVideos
          /\ fs' = [fs EXCEPT !.video = TRUE]
          /\ downloaded' = TRUE
          /\ pc' = "extract"
       \/ /\ downloaded' = FALSE
          /\ pc' = "returned"
          /\ UNCHANGED <<video, fs>>
    /\ UNCHANGED <<runs, kw, cleanup, pos, mask, prev_frame, saved_frames,
                   last_saved_time, mean_diff, success>>

\* Lines 129-155 and 170: a page per frame, or False when there is none.
CreatePdf ==
    /\ pc = "create_pdf"
    /\ success' = (saved_frames # <<>>)
    /\ pc' = "cleanup"
    /\ UNCHANGED <<runs, kw, cleanup, video, fs, pos, mask, prev_frame, saved_frames,
                   last_saved_time, mean_diff, downloaded>>

\* Lines 173-179: os.remove of the video and of this run's frames, then
\* os.rmdir, which raises OSError on a directory that is not empty.
Cleanup ==
    /\ pc = "cleanup"
    /\ IF cleanup
       THEN LET left == fs.frames \ {saved_frames[i].path : i \in 1 .. Len(saved_frames)}
            IN  IF left = {}
                THEN /\ fs' = [video |-> FALSE, dir |-> FALSE, frames |-> {}]
                     /\ pc' = "returned"
                ELSE /\ fs' = [video |-> FALSE, dir |-> TRUE, frames |-> left]
                     /\ pc' = "raised"
       ELSE /\ pc' = "returned"
            /\ UNCHANGED fs
    /\ UNCHANGED <<runs, kw, cleanup, video, pos, mask, prev_frame, saved_frames,
                   last_saved_time, mean_diff, downloaded, success>>

Init ==
    /\ pc = "download"
    /\ runs = 1
    /\ kw \in SelectKw
    /\ cleanup \in BOOLEAN
    /\ downloaded = FALSE
    /\ video = <<>>
    /\ fs = [video |-> FALSE, dir |-> FALSE, frames |-> {}]
    /\ InitLocals

Next == Call \/ DownloadVideo \/ ExtractOpen \/ ExtractSetup \/ LoopRead \/ CreatePdf \/ Cleanup

Spec == Init /\ [][Next]_vars

\* ------------------------------------------------------------------ claims
\* The frames the loop has taken so far are video[1 .. pos]; frame k of the
\* source is video[k + 1].
InRun == pc \in {"loop", "create_pdf"} /\ mask # NoFrame

\* The score of video[k] against video[k - 1] under the run's mask.
ScoreAt(k) == MeanDiff(cvtColor(video[k].img), cvtColor(video[k - 1].img), mask)

\* The video with changes at 1000 ms and 1500 ms.
DebounceExample ==
    <<[img |-> Uniform(1, 1, Black), ts |-> 0],
      [img |-> Uniform(1, 1, Black), ts |-> 500],
      [img |-> Uniform(1, 1, White), ts |-> 1000],
      [img |-> Uniform(1, 1, Black), ts |-> 1500]>>

\* C1: in every state of extract_frames any two consecutive entries of
\* saved_frames are at least min_interval * 1000 ms apart, and the video with
\* changes at 1000 ms and 1500 ms gives, with a 2000 ms interval, exactly one
\* slide, the one at 1000 ms.
C1_Debounce ==
    /\ \A i \in 1 .. Len(saved_frames) - 1 :
          saved_frames[i + 1].timestamp - saved_frames[i].timestamp
              >= kw.min_interval * 1000
    /\ (/\ pc = "create_pdf"
        /\ video = DebounceExample
        /\ kw.min_interval = 2
        /\ kw.frame_threshold = 100)
       => saved_frames = <<[path |-> FramePath(FramesDir, 0), timestamp |-> 1000]>>

\* The example has run to its end.
C1_Witness ==
    /\ pc = "create_pdf"
    /\ video = DebounceExample
    /\ kw.min_interval = 2
    /\ kw.frame_threshold = 100
    /\ Len(saved_frames) = 1

\* C2: a frame with a predecessor is appended if and only if its score
\* exceeds the threshold and it comes at least min_interval * 1000 ms after
\* the last selection; last_saved_time becomes its timestamp exactly then and
\* is left alone by every frame that is not selected.
C2_SelectionRule ==
    [][(pc = "loop" /\ pos >= 1 /\ pos < Len(video)) =>
          LET timestamp == video[pos + 1].ts
              selected ==
                  /\ Exceeds(ScoreAt(pos + 1), kw.frame_threshold)
                  /\ timestamp - last_saved_time >= kw.min_interval * 1000
          IN  IF selected
              THEN /\ Len(saved_frames') = Len(saved_frames) + 1
                   /\ SubSeq(saved_frames', 1, Len(saved_frames)) = saved_frames
                   /\ saved_frames'[Len(saved_frames')].timestamp = timestamp
                   /\ last_saved_time' = timestamp
              ELSE /\ saved_frames' = saved_frames
                   /\ last_saved_time' = last_saved_time]_vars

\* A frame over the threshold was suppressed between two selections, and the
\* second selection came less than the interval after the suppressed frame.
C2_Witness ==
    /\ pc = "loop"
    /\ Len(saved_frames) = 2
    /\ \E k \in 2 .. pos :
          /\ Exceeds(ScoreAt(k), kw.frame_threshold)
          /\ saved_frames[1].timestamp <= video[k].ts
          /\ video[k].ts - saved_frames[1].timestamp < kw.min_interval * 1000
          /\ saved_frames[2].timestamp - video[k].ts < kw.min_interval * 1000
          /\ saved_frames[2].timestamp - video[k].ts > 0

\* The earliest frame taken so far whose score exceeds the threshold (0: none).
FirstQualifying ==
    LET over == {k \in 2 .. pos : Exceeds(ScoreAt(k), kw.frame_threshold)}
    IN  IF over = {} THEN 0 ELSE CHOOSE k \in over : \A j \in over : k <= j

\* C3: the earliest compared frame whose score exceeds the threshold is
\* selected, whatever its timestamp: it is the first entry of saved_frames.
C3_FirstQualifyingSelected ==
    (InRun /\ FirstQualifying # 0) =>
        /\ saved_frames # <<>>
        /\ saved_frames[1] = [path |-> FramePath(FramesDir, 0),
                              timestamp |-> video[FirstQualifying].ts]

\* The first qualifying frame came before one interval had passed since 0.
C3_Witness ==
    /\ InRun
    /\ FirstQualifying # 0
    /\ video[FirstQualifying].ts < kw.min_interval * 1000
    /\ saved_frames # <<>>

\* C9: frame 0 is never selected: after the loop has taken n frames there are
\* at most n - 1 slides, so a source of N >= 1 frames gives at most N - 1
\* and a source of one frame gives none.
C9_FirstFrameNeverSelected ==
    /\ Len(saved_frames) <= Max(pos - 1, 0)
    /\ (pc = "create_pdf" /\ Len(video) >= 1) => Len(saved_frames) <= Len(video) - 1

\* A source of one white frame has run to its end.
C9_Witness ==
    /\ pc = "create_pdf"
    /\ Len(video) = 1
    /\ video[1].img = Uniform(1, 1, White)
    /\ pos = 1
    /\ saved_frames = <<>>

\* C8 as stated: the read position never moves backwards.
C8_NeverBackwards == [][pos' >= pos]_vars

\* C8 as amended: the rewind after the first read is the one step backwards;
\* after it every turn of the loop takes the next frame of the source, scores
\* it against the frame before it and keeps it as the next reference, until
\* the source is at its end.
C8_ForwardAfterRewind ==
    [][/\ pc = "setup" => pos' = 0
       /\ pc # "setup" => pos' >= pos
       /\ (pc = "loop" /\ pos < Len(video)) =>
              /\ pos' = pos + 1
              /\ pc' = "loop"
              /\ prev_frame' = cvtColor(video[pos + 1].img)
              /\ pos = 0 => (prev_frame = NoFrame /\ mean_diff' = mean_diff)
              /\ pos >= 1 => (/\ prev_frame = cvtColor(video[pos].img)
                              /\ mean_diff' = ScoreAt(pos + 1))
       /\ (pc = "loop" /\ pos = Len(video)) => (pc' = "create_pdf" /\ pos' = pos)]_vars

\* A source of at least three frames has been read to its end.
C8_Witness == pc = "create_pdf" /\ Len(video) >= 3 /\ pos = Len(video)

\* floor(n * r) for a ratio r = <<numerator, denominator>> with r >= 0.
FloorOf(n, r) == (n * r[1]) \div r[2]
InUnit(r) == 0 <= r[1] /\ r[1] <= r[2]

\* The rectangle of mh x mw cells at the named corner of an h x w grid.
CornerRect(h, w, mh, mw, corner) ==
    {c \in Cells(h, w) :
        /\ IF corner \in {"top-left", "top-right"} THEN c[1] < mh ELSE c[1] >= h - mh
        /\ IF corner \in {"top-left", "bottom-left"} THEN c[2] < mw ELSE c[2] >= w - mw}

\* C4: for ratios in [0,1] the mask is 0 on the rectangle of
\* floor(height * heightRatio) x floor(width * widthRatio) cells at the named
\* corner and 1 on every other cell, also when a floored dimension is 0.
C4_MaskShape ==
    (InRun /\ InUnit(kw.speaker_width_ratio) /\ InUnit(kw.speaker_height_ratio)) =>
        LET mh == FloorOf(mask.h, kw.speaker_height_ratio)
            mw == FloorOf(mask.w, kw.speaker_width_ratio)
            zeros == {c \in DOMAIN mask.px : mask.px[c] = 0}
        IN  /\ mask.h = video[1].img.h
            /\ mask.w = video[1].img.w
            /\ DOMAIN mask.px = Cells(mask.h, mask.w)
            /\ \A c \in DOMAIN mask.px : mask.px[c] \in {0, 1}
            /\ Cardinality(zeros) = mh * mw
            /\ zeros = CornerRect(mask.h, mask.w, mh, mw, kw.position)

\* A ratio outside [0,1], or an excluded rectangle with a zero dimension or
\* one that exceeds the frame.
InvalidGeometry(h, w) ==
    \/ ~InUnit(kw.speaker_width_ratio)
    \/ ~InUnit(kw.speaker_height_ratio)
    \/ FloorOf(h, kw.speaker_height_ratio) \notin 1 .. h
    \/ FloorOf(w, kw.speaker_width_ratio) \notin 1 .. w

\* C5: with an invalid geometry the run fails before any frame is compared: it
\* never reaches the loop, builds no mask and emits no slide.
C5_InvalidGeometryFailsFast ==
    (Len(video) >= 1 /\ InvalidGeometry(video[1].img.h, video[1].img.w)) =>
        /\ pc \notin {"loop", "create_pdf"}
        /\ mask = NoFrame
        /\ saved_frames = <<>>

\* Every frame of the video has the pixels of the first one wherever the mask
\* is 1.
SameOutsideMask ==
    \A i \in 1 .. Len(video) : \A c \in DOMAIN mask.px :
        mask.px[c] = 1 => video[i].img.px[c] = video[1].img.px[c]

\* The mask is the one C4 describes, for ratios in [0,1].
MaskAsSpecified ==
    /\ InUnit(kw.speaker_width_ratio)
    /\ InUnit(kw.speaker_height_ratio)
    /\ {c \in DOMAIN mask.px : mask.px[c] = 0}
          = CornerRect(mask.h, mask.w, FloorOf(mask.h, kw.speaker_height_ratio),
                       FloorOf(mask.w, kw.speaker_width_ratio), kw.position)

\* C7 as stated: when the frames differ only inside the excluded rectangle,
\* every score is 0 and no slide is selected.  It is stated here for the runs
\* whose mask is the specified one, where it fails all the same.
C7_MaskedChangesScoreZero ==
    (InRun /\ MaskAsSpecified /\ SameOutsideMask /\ kw.frame_threshold > 0) =>
        /\ saved_frames = <<>>
        /\ mean_diff.num = 0
        /\ mean_diff.den > 0

\* C7 as amended: no slide is selected, and every score is 0 when the mask
\* leaves a pixel visible; when it excludes the whole frame the score is 0/0.
C7_MaskedChangesInvisible ==
    (InRun /\ SameOutsideMask /\ kw.frame_threshold > 0) =>
        /\ saved_frames = <<>>
        /\ mean_diff.num = 0
        /\ IF npSum(mask) > 0 THEN mean_diff.den > 0
           ELSE mean_diff = NoScore \/ IsNaN(mean_diff)

\* Two frames that differ, but only inside the excluded rectangle of a mask
\* that leaves some pixel visible, have been compared.
C7_Witness ==
    /\ InRun
    /\ SameOutsideMask
    /\ pos >= 2
    /\ video[pos].img # video[pos - 1].img
    /\ npSum(mask) > 0
    /\ mean_diff = [num |-> 0, den |-> npSum(mask)]

\* C6: a source with no frame gives an empty slide sequence as a normal
\* result: no error, no mask, no turn of the loop.
C6_EmptySource ==
    (downloaded /\ Len(video) = 0) =>
        /\ pc \in {"extract", "create_pdf", "cleanup", "returned", "raised"}
        /\ pc = "raised" => cleanup
        /\ saved_frames = <<>>
        /\ mask = NoFrame
        /\ pos = 0
        /\ mean_diff = NoScore

\* extract_frames has returned from a source with no frame.
C6_Witness == downloaded /\ Len(video) = 0 /\ pc = "create_pdf" /\ fs.dir

\* C10: a call with cleanup=True whose download succeeded returns and leaves
\* no video file, no frame file and no frames directory, whatever earlier
\* runs left behind; a call whose download failed returns False and has
\* extracted nothing.
C10_CleanupLeavesNothing ==
    /\ pc # "raised"
    /\ (pc = "returned" /\ downloaded /\ cleanup) =>
          (~fs.video /\ fs.frames = {} /\ ~fs.dir)
    /\ (pc = "returned" /\ ~downloaded) =>
          (~success /\ saved_frames = <<>> /\ mask = NoFrame /\ pos = 0)

====
